---------------------------- MODULE Spec2Model ----------------------------
(***************************************************************************)
(* Model of the subtitle/audio alignment core of video-translator:         *)
(*   sentence_utils.extract_sentences      (Sentence Boundary Extractor)   *)
(*   ai_split.ai_split_sentences,                                          *)
(*   manual_split.manual_split_sentences   (Sentence-Count Matcher)        *)
(*   sentence_utils.format_sentence_for_display (Display Formatter)        *)
(*   subtitle.create_subtitles             (Cue Allocator)                 *)
(*   tts.generate_speech                   (Timeline Reconciler)           *)
(*                                                                         *)
(* Times are integers in milliseconds.  Text is a sequence of one-character*)
(* strings, so that len(), slicing, strip() and split() are computed as    *)
(* Python computes them.  Python indices are 0-based; sequences here are   *)
(* 1-based, and every operator says which of the two it takes.             *)
(*                                                                         *)
(* Five specifications share the variables:                                *)
(*   SpecExtractor : extract_sentences on a bounded word sequence          *)
(*   SpecMatcher   : ai_split_sentences and the callers' fall-back chain   *)
(*                   on a bounded text and windows                         *)
(*   SpecFormatter : format_sentence_for_display on a bounded sentence     *)
(*   SpecTimecode  : format_time_srt on a bounded time                     *)
(*   Spec          : app.main steps 4-5, generate_speech then              *)
(*                   create_subtitles                                      *)
(***************************************************************************)
EXTENDS Integers, Sequences, FiniteSets, TLC

VARIABLES
    pc,                   \* position of the modelled call sequence
    words,                \* translated_data["words"]: the transcript's words
    sentences,            \* extract_sentences(words): the Sentence Windows
    translated_text,      \* translated_data["translated"]: the text blob T
    target_language,      \* translated_data["target_language"]
    delegation,           \* what the Bedrock delegation call does
    split_result,         \* what ai_split_sentences returns (or RAISED)
    synth,                \* per zipped segment: what Polly/ffprobe yield
    translated_sentences, \* the segments create_subtitles zips with the windows
    speech_sentences,     \* the segments generate_speech zips with the windows
    audio_segments,       \* generate_speech's audio_segments list
    delays,               \* adelay (ms) given to each audio segment
    speech_timing,        \* audio_timing returned by generate_speech
    audio_timing,         \* translated_data["audio_timing"] (NONE = key absent)
    cues,                 \* the SRT cues written by create_subtitles
    arg_sentence,         \* format_sentence_for_display: the sentence argument
    arg_max_line_length,  \* format_sentence_for_display: the max_line_length argument
    ret_lines,            \* format_sentence_for_display: the lines returned
    arg_seconds,          \* format_time_srt: the argument, in ms
    ret_timecode          \* format_time_srt: the string returned

vars == <<pc, words, sentences, translated_text, target_language, delegation,
          split_result, synth, translated_sentences, speech_sentences,
          audio_segments, delays, speech_timing, audio_timing, cues,
          arg_sentence, arg_max_line_length, ret_lines, arg_seconds,
          ret_timecode>>

\* the arguments and results of the functions called on their own
callVars == <<arg_sentence, arg_max_line_length, ret_lines, arg_seconds, ret_timecode>>

\* Python's None (or an absent dictionary key) and a value that is there
NONE == [some |-> FALSE, value |-> << >>]
Some(v) == [some |-> TRUE, value |-> v]

\* the outcome of a call: it returns a value, or an exception leaves it
RAISED == [raised |-> TRUE, value |-> << >>]
Returns(v) == [raised |-> FALSE, value |-> v]

(***************************************************************************)
(* Bounds of the model.                                                    *)
(***************************************************************************)
MaxWords == 3        \* words in a transcript
MaxTick == 4         \* SpecExtractor: word times are 0..MaxTick tenths of a second
MaxWindows == 3      \* SpecMatcher: sentence windows
MaxWindowSeconds == 1 \* SpecMatcher: a window lasts 0..MaxWindowSeconds seconds
MaxLen == 6          \* SpecMatcher: characters of the translated text
MaxParts == 4        \* SpecMatcher: lines of a delegation answer
MaxSecond == 1       \* Spec: word times are 0..MaxSecond times 1.2 seconds
MaxDuration == 2     \* Spec: an audio lasts 0..MaxDuration times 1.2 seconds
MaxTokens == 5       \* Spec: clauses of the translated text
MaxPieces == 4       \* SpecFormatter: pieces of a sentence
MaxMillis == 2500    \* SpecTimecode: milliseconds after each base time

(***************************************************************************)
(* Sequence helpers.                                                       *)
(***************************************************************************)
Min(a, b) == IF a <= b THEN a ELSE b
Max(a, b) == IF a >= b THEN a ELSE b

\* s[lo:hi] of Python (0-based, hi exclusive), for 0 <= lo and hi <= len(s)
Slice(s, lo, hi) == IF hi <= lo THEN << >> ELSE SubSeq(s, lo + 1, hi)

\* all sequences over S of length 0..n
SeqsUpTo(S, n) == UNION {[1..k -> S] : k \in 0..n}

RECURSIVE Flatten(_)
\* ''.join(list)
Flatten(list) ==
    IF list = << >> THEN << >> ELSE Head(list) \o Flatten(Tail(list))

(***************************************************************************)
(* sentence_utils.extract_sentences                                        *)
(***************************************************************************)
\* A character outside ASCII is written by its code point: "u3002" is the
\* ideographic full stop, "uFF01" and "uFF1F" the full-width ! and ?,
\* "u3001" the ideographic comma, "uFF0C" the full-width comma.  Each is one
\* character of a text.

\* the tuple given to str.endswith at sentence_utils.py:27
Terminators == {".", "!", "?", "u3002", "uFF01", "uFF1F"}

\* a test of the first character of the word instead of the last
StartsSentence(word) ==
    Len(word.word) > 0 /\ word.word[1] \in Terminators

\* word["word"].endswith((...)) at sentence_utils.py:27
EndsSentence(word) ==
    Len(word.word) > 0 /\ word.word[Len(word.word)] \in Terminators

GapThreshold == 200   \* gap > 0.2 (seconds), in ms

\* a fill taken off the end instead of added to it
GapFillBackwards(gap) == 0 - (gap * 8) \div 10

\* a gap filled by 120% instead of 80%
GapFillPastStart(gap) == (gap * 12) \div 10

\* the whole gap filled instead of 80% of it
GapFillWhole(gap) == gap

\* gap * 0.8; exact in ms, the word times being multiples of 100 ms
GapFill(gap) == (gap * 8) \div 10

RECURSIVE AccumulateWords(_, _, _)
\* the loop of lines 19-35 and the flush of lines 37-40: ws are the words still
\* to read, current the open sentence, done the sentences closed so far
AccumulateWords(ws, current, done) ==
    IF ws = << >>
    THEN IF current.words # << >>
         THEN Append(done, [current EXCEPT !.start = current.words[1].start_time])
         ELSE done
    ELSE LET word == Head(ws)
             cur == [current EXCEPT !.words = Append(@, word),
                                    !.end = word.end_time]
         IN IF EndsSentence(word)
            THEN AccumulateWords(Tail(ws),
                     [start |-> word.end_time, end |-> word.end_time, words |-> << >>],
                     Append(done, [cur EXCEPT !.start = cur.words[1].start_time]))
            ELSE AccumulateWords(Tail(ws), cur, done)

\* the pass of lines 43-50; window i reads window i+1's start, which the pass
\* never writes, and its own end, which only its own iteration writes
AdjustEnds(sents) ==
    [i \in 1..Len(sents) |->
        IF i < Len(sents)
        THEN LET gap == sents[i + 1].start - sents[i].end
             IN IF gap > GapThreshold
                THEN [sents[i] EXCEPT !.end = @ + GapFill(gap)]
                ELSE sents[i]
        ELSE sents[i]]

\* the windows before the gap-fill pass (state at line 41)
RawSentences(ws) ==
    AccumulateWords(ws, [start |-> 0, end |-> 0, words |-> << >>], << >>)

extract_sentences(ws) == AdjustEnds(RawSentences(ws))

(***************************************************************************)
(* Python str operations on texts (sequences of characters).               *)
(***************************************************************************)
\* str.strip() and str.split() with no argument act on whitespace; the texts
\* of the model hold no other whitespace than the space
IsSpace(c) == c = " "

RECURSIVE LStrip(_)
LStrip(s) == IF s # << >> /\ IsSpace(Head(s)) THEN LStrip(Tail(s)) ELSE s

RECURSIVE RStrip(_)
RStrip(s) ==
    IF s # << >> /\ IsSpace(s[Len(s)]) THEN RStrip(SubSeq(s, 1, Len(s) - 1)) ELSE s

\* s.strip()
Strip(s) == LStrip(RStrip(s))

\* ''.join(s.split()): s without its whitespace
NoSpace(s) == SelectSeq(s, LAMBDA c : ~IsSpace(c))

\* s[i:].startswith(sep), i 1-based
MatchesAt(s, i, sep) ==
    i + Len(sep) - 1 <= Len(s) /\ SubSeq(s, i, i + Len(sep) - 1) = sep

\* sep in s
Contains(s, sep) == \E i \in 1..Len(s) : MatchesAt(s, i, sep)

RECURSIVE SplitOn(_, _)
\* s.split(sep) for a non-empty sep: cut at the leftmost occurrences
SplitOn(s, sep) ==
    IF ~Contains(s, sep) THEN <<s>>
    ELSE LET i == CHOOSE k \in 1..Len(s) :
                     MatchesAt(s, k, sep) /\ \A j \in 1..k - 1 : ~MatchesAt(s, j, sep)
         IN <<SubSeq(s, 1, i - 1)>> \o SplitOn(SubSeq(s, i + Len(sep), Len(s)), sep)

RECURSIVE Join(_, _)
\* sep.join(list)
Join(list, sep) ==
    IF list = << >> THEN << >>
    ELSE IF Len(list) = 1 THEN list[1]
    ELSE list[1] \o sep \o Join(Tail(list), sep)

\* [p for p in list if p.strip()]
NonBlank(list) == SelectSeq(list, LAMBDA p : Strip(p) # << >>)

\* a fidelity test that every list of parts passes
SameUnchecked(parts, text) == TRUE

\* the whitespace-insensitive fidelity test of ai_split.py:116-121 and
\* manual_split.py:54-59, 73-78: TRUE when the parts reproduce the text
SameIgnoringSpace(parts, text) == NoSpace(Flatten(parts)) = NoSpace(text)

(***************************************************************************)
(* manual_split.manual_split_sentences                                     *)
(***************************************************************************)
IDEO_STOP == "u3002"

\* the break characters of manual_split.py:93
CjkBreaks == {"u3001", "uFF0C", "u3002", "uFF01", "uFF1F", " "}

SearchWindow == 20   \* min(20, len(translated_text) // 4)

\* int(n * first_time / total_time) for first_time >= 0 < total_time: lines 36,
\* 68, 85, 129, 135 multiply by first_ratio = first_time / total_time
Proportion(n, first_time, total_time) == (n * first_time) \div total_time

\* lines 88-96 and 138-146: the first index i (0-based) of
\* range(max(0, split_point - window), min(len, split_point + window)) holding
\* a break character decides best_split (i + keep); split_point when there is none
BestSplit(text, split_point, breaks, keep) ==
    LET window == Min(SearchWindow, Len(text) \div 4)
        lo == Max(0, split_point - window)
        hi == Min(Len(text), split_point + window)
        hits == {i \in lo..hi - 1 : text[i + 1] \in breaks}
    IN IF hits = {} THEN split_point
       ELSE (CHOOSE i \in hits : \A j \in hits : i <= j) + keep

\* lines 98-102 and 148-152
CutAt(text, best_split) ==
    <<Strip(Slice(text, 0, best_split)), Strip(Slice(text, best_split, Len(text)))>>

\* a punctuation attempt that returns nothing and leaves the split to the
\* proportional code after it (an attempt that returns, returns two parts)
FALLS == << >>

\* lines 42-81, target_language in ['ja', 'zh']
CjkPunctuationSplit(text, first_time, total_time) ==
    IF ~Contains(text, <<IDEO_STOP>>) THEN FALLS
    ELSE LET kept == NonBlank(SplitOn(text, <<IDEO_STOP>>))
             parts == [i \in 1..Len(kept) |-> Append(Strip(kept[i]), IDEO_STOP)]
         IN IF Len(parts) = 2
            THEN IF SameIgnoringSpace(parts, text) THEN parts ELSE FALLS
            ELSE IF Len(parts) > 2
            THEN LET merge_point == Max(1, Proportion(Len(parts), first_time, total_time))
                     merged == <<Flatten(Slice(parts, 0, merge_point)),
                                 Flatten(Slice(parts, merge_point, Len(parts)))>>
                 IN IF SameIgnoringSpace(merged, text) THEN merged ELSE FALLS
            ELSE FALLS

\* lines 108-118: the pieces of text.split(char), each but the last given back
\* char.strip(); a piece is taken up only while current is non-empty
RECURSIVE RebuildParts(_, _, _, _)
RebuildParts(pieces, current, parts, mark) ==
    IF pieces = << >>
    THEN IF current # << >> THEN Append(parts, current) ELSE parts
    ELSE IF current # << >>
         THEN RebuildParts(Tail(pieces), Strip(Head(pieces)),
                           Append(parts, current \o mark), mark)
         ELSE RebuildParts(Tail(pieces), Strip(Head(pieces)), parts, mark)

RECURSIVE LatinPunctuationSplit(_, _, _, _)
\* lines 106-132: the loop over ['. ', '! ', '? '], chars the marks still to try
LatinPunctuationSplit(text, chars, first_time, total_time) ==
    IF chars = << >> THEN FALLS
    ELSE LET char == Head(chars)
             parts == RebuildParts(SplitOn(text, char), << >>, << >>, Strip(char))
         IN IF Contains(text, char) /\ Len(parts) = 2 THEN parts
            ELSE IF Contains(text, char) /\ Len(parts) > 2
            THEN LET merge_point == Max(1, Proportion(Len(parts), first_time, total_time))
                 IN <<Join(Slice(parts, 0, merge_point), <<" ">>),
                      Join(Slice(parts, merge_point, Len(parts)), <<" ">>)>>
            ELSE LatinPunctuationSplit(text, Tail(chars), first_time, total_time)

LatinMarks == <<<<".", " ">>, <<"!", " ">>, <<"?", " ">>>>

\* lines 26-152: the two-window case; the division of line 36 raises
\* ZeroDivisionError when the two windows last 0 together
SplitInTwo(text, original_sentences, language) ==
    LET first_time == original_sentences[1].end - original_sentences[1].start
        second_time == original_sentences[2].end - original_sentences[2].start
        total_time == first_time + second_time
    IN IF total_time = 0 THEN RAISED
       ELSE IF language \in {"ja", "zh"}
       THEN LET parts == CjkPunctuationSplit(text, first_time, total_time)
            IN IF parts # FALLS THEN Returns(parts)
               ELSE Returns(CutAt(text, BestSplit(text,
                        Proportion(Len(text), first_time, total_time), CjkBreaks, 1)))
       ELSE LET parts == LatinPunctuationSplit(text, LatinMarks, first_time, total_time)
            IN IF parts # FALLS THEN Returns(parts)
               ELSE Returns(CutAt(text, BestSplit(text,
                        Proportion(Len(text), first_time, total_time), {" "}, 0)))

\* lines 157-174: int(total_length * (i / n)) for i = 0..n, 0-based i
LinearPartition(text, n) ==
    [k \in 1..n |->
        IF k = n
        THEN Strip(Slice(text, (Len(text) * (k - 1)) \div n, Len(text)))
        ELSE Strip(Slice(text, (Len(text) * (k - 1)) \div n, (Len(text) * k) \div n))]

manual_split_sentences(text, original_sentences, language) ==
    IF Len(original_sentences) = 1 THEN Returns(<<text>>)
    ELSE IF Len(original_sentences) = 2
    THEN SplitInTwo(text, original_sentences, language)
    ELSE Returns(LinearPartition(text, Len(original_sentences)))

(***************************************************************************)
(* ai_split.ai_split_sentences                                             *)
(***************************************************************************)
\* lines 98-113: one line of the model's answer, stripped, to its sentence;
\* an answer line is "label: text", the label followed by text, or bare text
ParseLine(raw) ==
    LET line == Strip(raw)
    IN IF Contains(line, <<":">>)
       THEN LET colon == CHOOSE i \in 1..Len(line) :
                             line[i] = ":" /\ \A j \in 1..i - 1 : line[j] # ":"
            IN Strip(SubSeq(line, colon + 1, Len(line)))
       ELSE IF Len(line) > 2 /\ SubSeq(line, 1, 2) = <<"u53E5", "u5B50">>
       THEN Strip(SubSeq(line, 3, Len(line)))
       ELSE line

\* lines 97-113: the sentences parsed from the answer's lines, blank lines skipped
ParseAnswer(raw_lines) ==
    [i \in 1..Len(NonBlank(raw_lines)) |-> ParseLine(NonBlank(raw_lines)[i])]

\* the first adjacent pair, whatever the lengths
FirstPair(parts) == 1

\* line 143: the index (1-based) of the leftmost adjacent pair whose combined
\* length is smallest (strict < keeps the first on ties)
ShortestPair(parts) ==
    CHOOSE i \in 1..Len(parts) - 1 :
        /\ \A j \in 1..Len(parts) - 1 :
              Len(parts[i]) + Len(parts[i + 1]) <= Len(parts[j]) + Len(parts[j + 1])
        /\ \A j \in 1..i - 1 :
              Len(parts[j]) + Len(parts[j + 1]) > Len(parts[i]) + Len(parts[i + 1])

RECURSIVE MergeShortest(_, _)
\* lines 138-150: merge adjacent pairs until n parts are left
MergeShortest(parts, n) ==
    IF Len(parts) <= n THEN parts
    ELSE LET i == ShortestPair(parts)
         IN MergeShortest(
                [k \in 1..Len(parts) - 1 |->
                    IF k < i THEN parts[k]
                    ELSE IF k = i THEN parts[i] \o <<" ">> \o parts[i + 1]
                    ELSE parts[k + 1]],
                n)

\* what the delegation tier does in one call (the boto3 client and the Bedrock
\* model are outside the repository):
\*   no_client : bedrock_client is None and boto3.client raises (lines 23-31)
\*   raises    : invoke_model or the reading of its response raises (line 160)
\*   answers   : the model answers with the lines `lines`
NoClient == [kind |-> "no_client", lines |-> << >>]
CallRaises == [kind |-> "raises", lines |-> << >>]
Answers(lines) == [kind |-> "answers", lines |-> lines]

\* every fall-back calls manual_split_sentences on the same arguments; the one
\* of line 127 or 158 runs inside the try, so that an exception of it reaches
\* the handler of line 160, which calls it again and lets the exception out
ai_split_sentences(text, original_sentences, language, call) ==
    IF call.kind # "answers"
    THEN manual_split_sentences(text, original_sentences, language)
    ELSE LET split_sentences == ParseAnswer(call.lines)
         IN IF ~SameIgnoringSpace(split_sentences, text)
            THEN manual_split_sentences(text, original_sentences, language)
            ELSE IF Len(split_sentences) = Len(original_sentences)
            THEN Returns(split_sentences)
            ELSE IF Len(split_sentences) > Len(original_sentences)
            THEN Returns(MergeShortest(split_sentences, Len(original_sentences)))
            ELSE manual_split_sentences(text, original_sentences, language)

(***************************************************************************)
(* sentence_utils.format_sentence_for_display                              *)
(***************************************************************************)
\* the marks of the look-behind pattern of split_text_advanced (line 141)
JaMarks == {"u3001", "u3002", "uFF01", "uFF1F"}

\* the k-th smallest element of a set of positions
Nth(positions, k) ==
    CHOOSE i \in positions : Cardinality({j \in positions : j < i}) = k - 1

\* re.split(r'(?<=[marks])', paragraph): a cut after every mark, so one piece
\* up to each mark and the piece after the last one (empty when the
\* paragraph ends with a mark)
SplitAfterMarks(paragraph) ==
    LET marks == {i \in 1..Len(paragraph) : paragraph[i] \in JaMarks}
        n == Cardinality(marks)
        cut(k) == IF k = 0 THEN 0
                  ELSE IF k > n THEN Len(paragraph) ELSE Nth(marks, k)
    IN [k \in 1..n + 1 |-> SubSeq(paragraph, cut(k - 1) + 1, cut(k))]

\* lines 139-143
split_text_advanced(paragraph) ==
    LET kept == NonBlank(SplitAfterMarks(paragraph))
    IN [i \in 1..Len(kept) |-> Strip(kept[i])]

\* sentence.split(): the maximal runs of non-whitespace characters
SplitWhitespace(s) ==
    LET starts == {i \in 1..Len(s) :
                      ~IsSpace(s[i]) /\ (i = 1 \/ IsSpace(s[i - 1]))}
        ends == {i \in 1..Len(s) :
                    ~IsSpace(s[i]) /\ (i = Len(s) \/ IsSpace(s[i + 1]))}
    IN [k \in 1..Cardinality(starts) |-> SubSeq(s, Nth(starts, k), Nth(ends, k))]

\* lines 161-169: the limit in force; language NONE_LANGUAGE is the call
\* without target_language, where the max_line_length argument stands
NONE_LANGUAGE == "none"
MaxLineLength(max_line_length, language) ==
    IF language = NONE_LANGUAGE THEN max_line_length
    ELSE IF language = "en" THEN 50
    ELSE IF language = "ja" THEN 15
    ELSE IF language \in {"zh", "ko"} THEN 30
    ELSE 40

RECURSIVE PackLines(_, _, _, _)
\* lines 179-197: tokens still to place, the line being filled, the lines closed
PackLines(tokens, current_line, lines, limit) ==
    IF tokens = << >>
    THEN IF current_line # << >> THEN Append(lines, current_line) ELSE lines
    ELSE LET word == Head(tokens)
         IN IF Len(current_line) + Len(word) + 1 > limit /\ current_line # << >>
            THEN PackLines(Tail(tokens), word, Append(lines, current_line), limit)
            ELSE IF current_line # << >>
            THEN PackLines(Tail(tokens), current_line \o <<" ">> \o word, lines, limit)
            ELSE PackLines(Tail(tokens), word, lines, limit)

format_sentence_for_display(sentence, max_line_length, language) ==
    LET limit == MaxLineLength(max_line_length, language)
    IN IF Len(sentence) <= limit THEN <<sentence>>
       ELSE PackLines(IF language = "ja" THEN split_text_advanced(sentence)
                      ELSE SplitWhitespace(sentence),
                      << >>, << >>, limit)

DefaultMaxLineLength == 50   \* the default of the max_line_length parameter

\* format_time_srt (lines 199-214). A time is a Python float. The times of a
\* transcript are decimal numbers of milliseconds ("2.4"), so a time is
\* modelled by its number of milliseconds k and stands for the double nearest
\* to k / 1000; the operators below compute on that double exactly.
SignificandBits == 52   \* fraction bits of a Python float (IEEE 754 binary64)

RECURSIVE Pow2(_)
Pow2(n) == IF n = 0 THEN 1 ELSE 2 * Pow2(n - 1)

RECURSIVE Pow2Mod1000(_)
Pow2Mod1000(n) == IF n = 0 THEN 1 ELSE (2 * Pow2Mod1000(n - 1)) % 1000

\* floor(log2(m)) for 1 <= m < 1024
FloorLog2(m) == CHOOSE j \in 0..9 : Pow2(j) <= m /\ m < Pow2(j + 1)

\* the binary exponent of the double nearest to k / 1000, k > 0:
\* floor(log2(k / 1000))
BinaryExponent(k) ==
    IF k >= 1000
    THEN CHOOSE q \in 0..20 : 1000 * Pow2(q) <= k /\ k < 1000 * Pow2(q + 1)
    ELSE 0 - (CHOOSE p \in 1..10 : k * Pow2(p) >= 1000 /\ k * Pow2(p - 1) < 1000)

\* The double nearest to k / 1000 is n / 2^s with s = 52 - BinaryExponent(k)
\* and n the integer nearest to k * 2^s / 1000. RoundingResidue is
\* (k * 2^s) mod 1000: at 0 the double is k / 1000, below 500 the double is
\* RoundingResidue / (1000 * 2^s) less than k / 1000, above 500 it is more
\* (500 does not occur: the residue is a multiple of 8).
RoundingResidue(k) ==
    ((k % 1000) * Pow2Mod1000(SignificandBits - BinaryExponent(k))) % 1000

\* line 209: int(seconds // 3600); the double and k / 1000 have the same floor
Hours(k) == k \div 3600000

\* line 210: int((seconds % 3600) // 60)
Minutes(k) == (k % 3600000) \div 60000

\* line 211 and the int(seconds_remainder) of lines 212 and 214
WholeSeconds(k) == (k % 60000) \div 1000

\* line 212: int((seconds_remainder - int(seconds_remainder)) * 1000).
\* "%" and the subtraction are exact, so the fraction is m / 1000 plus the
\* error of the double, with m = k mod 1000; the product with 1000 is rounded
\* to a double and int() truncates it. When the double is below k / 1000 the
\* exact product is m - RoundingResidue / 2^s: it rounds to m only when that
\* distance is at most half the spacing of the doubles just below m, and
\* otherwise the result is m - 1.
Milliseconds(k) ==
    LET m == k % 1000
        r == IF k = 0 THEN 0 ELSE RoundingResidue(k)
    IN IF m = 0 \/ r = 0 \/ r > 500 THEN m
       ELSE LET j == FloorLog2(m)
                e == j - BinaryExponent(k) - (IF m = Pow2(j) THEN 2 ELSE 1)
            IN IF e >= 0 /\ r <= Pow2(e) THEN m ELSE m - 1

DigitChars == <<"0", "1", "2", "3", "4", "5", "6", "7", "8", "9">>

\* the decimal digits of n >= 0
RECURSIVE Decimal(_)
Decimal(n) ==
    IF n < 10 THEN <<DigitChars[n + 1]>>
    ELSE Append(Decimal(n \div 10), DigitChars[(n % 10) + 1])

\* the format specifications 02d and 03d of line 214
RECURSIVE ZeroPad(_, _)
ZeroPad(digits, width) ==
    IF Len(digits) >= width THEN digits ELSE ZeroPad(<<"0">> \o digits, width)

\* seconds is the time in milliseconds
format_time_srt(seconds) ==
    ZeroPad(Decimal(Hours(seconds)), 2) \o <<":">>
        \o ZeroPad(Decimal(Minutes(seconds)), 2) \o <<":">>
        \o ZeroPad(Decimal(WholeSeconds(seconds)), 2) \o <<",">>
        \o ZeroPad(Decimal(Milliseconds(seconds)), 3)

(***************************************************************************)
(* sentence_utils.split_into_matching_sentences and combine_sentences      *)
(***************************************************************************)
\* the marks of lines 67 and 83
SentenceMarks == {".", "!", "?", "u3002", "uFF01", "uFF1F"}
ClauseMarks == {",", ";", ":", "uFF0C", "uFF1B", "uFF1A"}

\* lines 67-70 and 83-85: every mark is followed by "|", the text is split at
\* "|" and the pieces are stripped, the blank ones dropped (the texts of the
\* model hold no "|" of their own)
PiecesAfter(text, marks) ==
    LET at == {i \in 1..Len(text) : text[i] \in marks}
        n == Cardinality(at)
        cut(k) == IF k = 0 THEN 0 ELSE IF k > n THEN Len(text) ELSE Nth(at, k)
        pieces == [k \in 1..n + 1 |-> Strip(SubSeq(text, cut(k - 1) + 1, cut(k)))]
    IN SelectSeq(pieces, LAMBDA p : p # << >>)

\* lines 117-133: sentence i (0-based) closes a group when
\* (i + 1) / (len(sentences) / target_count) >= len(combined_sentences) + 1;
\* for fewer than 9 sentences the float comparison is the comparison of
\* (i + 1) * target_count with (len(combined_sentences) + 1) * len(sentences)
RECURSIVE CombineGroups(_, _, _, _, _)
CombineGroups(sents, i, current_group, combined_sentences, target_count) ==
    IF i = Len(sents)
    THEN IF current_group # << >>
         THEN Append(combined_sentences, Join(current_group, <<" ">>))
         ELSE combined_sentences
    ELSE LET group == Append(current_group, sents[i + 1])
         IN IF (i + 1) * target_count >= (Len(combined_sentences) + 1) * Len(sents)
            THEN CombineGroups(sents, i + 1, << >>,
                               Append(combined_sentences, Join(group, <<" ">>)),
                               target_count)
            ELSE CombineGroups(sents, i + 1, group, combined_sentences,
                               target_count)

\* lines 105-136, target_count >= 1
combine_sentences(sents, target_count) ==
    CombineGroups(sents, 0, << >>, << >>, target_count)

\* lines 81-86
RECURSIVE MoreSentences(_)
MoreSentences(initial_sentences) ==
    IF initial_sentences = << >> THEN << >>
    ELSE PiecesAfter(Head(initial_sentences), ClauseMarks)
             \o MoreSentences(Tail(initial_sentences))

\* lines 55-103, target_count >= 1
split_into_matching_sentences(text, target_count) ==
    LET initial_sentences == PiecesAfter(text, SentenceMarks)
        more_sentences == MoreSentences(initial_sentences)
    IN IF Len(initial_sentences) = target_count THEN initial_sentences
       ELSE IF Len(initial_sentences) < target_count /\ Len(more_sentences) >= target_count
       THEN IF Len(more_sentences) > target_count
            THEN combine_sentences(more_sentences, target_count)
            ELSE more_sentences
       ELSE IF Len(initial_sentences) > target_count
       THEN combine_sentences(initial_sentences, target_count)
       ELSE initial_sentences

(***************************************************************************)
(* tts.generate_speech: the Timeline Reconciler                            *)
(***************************************************************************)
\* what synthesis yields for one zipped (sentence, timing) pair:
\*   empty : sentence.strip() is empty, the pair is skipped (lines 226-228)
\*   error : synthesize_speech or the file write raises (lines 272-275)
\*   audio : an audio file whose get_audio_duration is `duration` ms; ffprobe
\*           failing makes it 0 (line 440)
EmptySentence == [kind |-> "empty", duration |-> 0]
SynthesisError == [kind |-> "error", duration |-> 0]
Audio(d) == [kind |-> "audio", duration |-> d]

\* a dictionary key that was never set
ABSENT == -1

RECURSIVE CollectSegments(_, _, _)
\* lines 224-275: pair i (1-based here; "index" keeps Python's 0-based i) adds
\* a segment when it yields audio of positive duration
CollectSegments(outcomes, timings, i) ==
    IF i > Min(Len(outcomes), Len(timings)) THEN << >>
    ELSE (IF outcomes[i].kind = "audio" /\ outcomes[i].duration > 0
          THEN <<[index |-> i - 1, start |-> timings[i].start, end |-> timings[i].end,
                  duration |-> outcomes[i].duration,
                  sequential_start |-> ABSENT, sequential_end |-> ABSENT]>>
          ELSE << >>)
         \o CollectSegments(outcomes, timings, i + 1)

RECURSIVE SortByStart(_)
\* line 278: list.sort(key=start) is stable: insert each segment after the
\* segments that start no later
SortByStart(segs) ==
    IF segs = << >> THEN << >>
    ELSE LET rest == SortByStart(SubSeq(segs, 1, Len(segs) - 1))
             last == segs[Len(segs)]
             before == SelectSeq(rest, LAMBDA x : x.start <= last.start)
             after == SelectSeq(rest, LAMBDA x : x.start > last.start)
         IN before \o <<last>> \o after

OverlapMargin == 2000      \* "- 2" of line 302, in ms
InterSegmentGap == 100     \* "+ 0.1" of line 320, in ms

\* an overlap test without the 2 s of tolerance
OverlapsNoMargin(current, next_seg) ==
    current.start + current.duration > next_seg.start

\* line 302: current["start"] + current["duration"] - 2 > next_seg["start"]
Overlaps(current, next_seg) ==
    current.start + current.duration - OverlapMargin > next_seg.start

\* lines 297-327: the for/else; TRUE when some consecutive pair overlaps
OverlapDetected(segs) ==
    \E i \in 1..Len(segs) - 1 : Overlaps(segs[i], segs[i + 1])

RECURSIVE SequentialStartNoGap(_, _)
\* a running time that leaves no pause between two segments
SequentialStartNoGap(segs, j) ==
    IF j = 1 THEN 0
    ELSE SequentialStartNoGap(segs, j - 1) + segs[j - 1].duration

RECURSIVE SequentialStart(_, _)
\* lines 307-320: current_time when segment j (1-based) is reached
SequentialStart(segs, j) ==
    IF j = 1 THEN 0
    ELSE SequentialStart(segs, j - 1) + segs[j - 1].duration + InterSegmentGap

\* a retiming that patches the batch from the first overlapping pair on
RetimeFromOverlap(segs) ==
    LET first == CHOOSE i \in 1..Len(segs) - 1 :
                     /\ Overlaps(segs[i], segs[i + 1])
                     /\ \A k \in 1..i - 1 : ~Overlaps(segs[k], segs[k + 1])
    IN [j \in 1..Len(segs) |->
           IF j < first THEN segs[j]
           ELSE [segs[j] EXCEPT
                    !.sequential_start = SequentialStart(segs, j),
                    !.sequential_end = SequentialStart(segs, j) + segs[j].duration]]

\* lines 306-320: every segment of the batch gets its sequential times
Retime(segs) ==
    [j \in 1..Len(segs) |->
        [segs[j] EXCEPT !.sequential_start = SequentialStart(segs, j),
                        !.sequential_end = SequentialStart(segs, j) + segs[j].duration]]

\* an adelay that always takes the original start
DelayByStart(audio, use_sequential_timing) == audio.start

\* lines 339-343: delay_ms of one segment, int(x * 1000) for x in seconds
Delay(audio, use_sequential_timing) ==
    IF use_sequential_timing THEN audio.sequential_start ELSE audio.start

\* lines 296-346 and 371-385 for a non-empty sorted batch: the segments as the
\* overlap check leaves them, the flag, the adelay of each segment
\* (int(x * 1000), x in seconds) and the audio_timing returned
Reconcile(segs) ==
    LET use_sequential_timing == OverlapDetected(segs)
        placed == IF use_sequential_timing THEN Retime(segs) ELSE segs
    IN [segments |-> placed,
        use_sequential_timing |-> use_sequential_timing,
        delays |-> [j \in 1..Len(placed) |-> Delay(placed[j], use_sequential_timing)],
        audio_timing |->
            IF use_sequential_timing
            THEN Some([j \in 1..Len(placed) |->
                          [index |-> placed[j].index,
                           sequential_start |-> placed[j].sequential_start,
                           sequential_end |-> placed[j].sequential_end,
                           original_start |-> placed[j].start,
                           original_end |-> placed[j].start + placed[j].duration,
                           duration |-> placed[j].duration]])
            ELSE NONE]

\* lines 97-102: max(word["end_time"]) or 0
MaxEndTime(ws) ==
    IF ws = << >> THEN 0
    ELSE CHOOSE t \in {ws[i].end_time : i \in 1..Len(ws)} :
             \A i \in 1..Len(ws) : ws[i].end_time <= t

(***************************************************************************)
(* subtitle.create_subtitles: the Cue Allocator                            *)
(***************************************************************************)
\* lines 106-115: the window of segment i (0-based): entry i of audio_timing
\* when the key is there and i < len(audio_timing), the original window otherwise
SelectedWindow(i, timing, timeline) ==
    IF timeline.some /\ i < Len(timeline.value)
    THEN [start |-> timeline.value[i + 1].sequential_start,
          end |-> timeline.value[i + 1].sequential_end]
    ELSE [start |-> timing.start, end |-> timing.end]

\* a part count rounded down: floor(len / 2)
NumSubtitlePartsFloor(formatted_lines) == Len(formatted_lines) \div 2

\* line 122: num_subtitle_parts = math.ceil(len(formatted_lines) / 2)
NumSubtitleParts(formatted_lines) == (Len(formatted_lines) + 1) \div 2

\* a part end that is not held back at the end of the window
PartEndUnclamped(part_start, part_duration, end_time) == part_start + part_duration

\* lines 141-144: part_end = min(part_start + part_duration, end_time)
PartEnd(part_start, part_duration, end_time) ==
    Min(part_start + part_duration, end_time)

\* a last part of one line that is shown as long as the other parts
PartDurationUnshortened(base_duration, part_idx, num_subtitle_parts, part_lines) ==
    base_duration

\* lines 134-138: base_duration, and base_duration / 2 + 1 (second) for a
\* last part of one line
PartDuration(base_duration, part_idx, num_subtitle_parts, part_lines) ==
    IF part_idx = num_subtitle_parts - 1 /\ Len(part_lines) = 1
    THEN base_duration \div 2 + 1000
    ELSE base_duration

\* an unsplit cue that is shortened the way a last single-line part is
ShortenedCue(i, formatted_lines, start_time, end_time, subtitle_index) ==
    <<[index |-> subtitle_index, start |-> start_time,
       end |-> Min(start_time + (end_time - start_time) \div 2 + 1000, end_time),
       lines |-> formatted_lines, segment |-> i]>>

\* lines 151-156: at most two lines, one cue over the whole window
WholeWindowCue(i, formatted_lines, start_time, end_time, subtitle_index) ==
    <<[index |-> subtitle_index, start |-> start_time, end |-> end_time,
       lines |-> formatted_lines, segment |-> i]>>

\* lines 117-156: the cues of one segment; subtitle_index is the counter when
\* the segment is reached.  "segment" records the segment (0-based) a cue was
\* written for; the SRT text does not hold it.  Division is Python's float
\* division; the times of the model make it exact in ms.
SegmentCues(i, formatted_lines, start_time, end_time, subtitle_index) ==
    LET total_duration == end_time - start_time
    IN IF Len(formatted_lines) > 2
       THEN LET num_subtitle_parts == NumSubtitleParts(formatted_lines)
                base_duration == total_duration \div num_subtitle_parts
            IN [k \in 1..num_subtitle_parts |->
                   LET part_idx == k - 1
                       part_start_idx == part_idx * 2
                       part_end_idx == Min(part_start_idx + 2, Len(formatted_lines))
                       part_lines == Slice(formatted_lines, part_start_idx, part_end_idx)
                       part_duration == PartDuration(base_duration, part_idx,
                                                     num_subtitle_parts, part_lines)
                       part_start == start_time + part_idx * base_duration
                       part_end == PartEnd(part_start, part_duration, end_time)
                   IN [index |-> subtitle_index + part_idx, start |-> part_start,
                       end |-> part_end, lines |-> part_lines, segment |-> i]]
       ELSE WholeWindowCue(i, formatted_lines, start_time, end_time, subtitle_index)

\* a counter that advances once per segment instead of once per cue
NextIndexPerSegment(subtitle_index, segment_cues) == subtitle_index + 1

\* lines 150 and 156: subtitle_index += 1 after every cue written
NextSubtitleIndex(subtitle_index, segment_cues) == subtitle_index + Len(segment_cues)

RECURSIVE AllocateCues(_, _, _, _, _, _, _)
\* lines 98-156: the loop over zip(translated_sentences, original_sentences),
\* i the 1-based position of the pair, subtitle_index the counter (1 at first)
\* and written the cues so far
AllocateCues(segments, timings, language, timeline, i, subtitle_index, written) ==
    IF i > Min(Len(segments), Len(timings)) THEN written
    ELSE LET window == SelectedWindow(i - 1, timings[i], timeline)
             formatted_lines ==
                 format_sentence_for_display(segments[i], DefaultMaxLineLength, language)
             segment_cues == SegmentCues(i - 1, formatted_lines, window.start,
                                         window.end, subtitle_index)
         IN AllocateCues(segments, timings, language, timeline, i + 1,
                NextSubtitleIndex(subtitle_index, segment_cues),
                written \o segment_cues)

(***************************************************************************)
(* Inputs: transcripts.  Transcribe yields the words in time order:        *)
(* start_time <= end_time <= the next word's start_time.                   *)
(***************************************************************************)
WordTexts == {<<"a">>, <<"a", ".">>}

Ordered(ws) ==
    /\ \A i \in 1..Len(ws) : ws[i].start_time <= ws[i].end_time
    /\ \A i \in 1..Len(ws) - 1 : ws[i].end_time <= ws[i + 1].start_time

RECURSIVE NonDecreasing(_, _)
\* the non-decreasing sequences of n values of Times
NonDecreasing(n, Times) ==
    IF n = 0 THEN {<< >>}
    ELSE {Append(s, t) : <<s, t>> \in
             {st \in NonDecreasing(n - 1, Times) \X Times :
                 st[1] = << >> \/ st[1][Len(st[1])] <= st[2]}}

\* every ordered transcript of at most n words with times in Times
Transcripts(n, Times) ==
    UNION {{[i \in 1..k |-> [word |-> txt[i], start_time |-> ts[2 * i - 1],
                             end_time |-> ts[2 * i]]] :
               ts \in NonDecreasing(2 * k, Times), txt \in [1..k -> WordTexts]} :
           k \in 0..n}

ExtractorTimes == {k * 100 : k \in 0..MaxTick}

(***************************************************************************)
(* SpecExtractor: extract_sentences applied to a transcript.               *)
(***************************************************************************)
NoCall ==
    /\ arg_sentence = << >>
    /\ arg_max_line_length = DefaultMaxLineLength
    /\ ret_lines = << >>
    /\ arg_seconds = 0
    /\ ret_timecode = << >>

Idle ==
    /\ NoCall
    /\ translated_text = << >>
    /\ target_language = "en"
    /\ delegation = NoClient
    /\ split_result = Returns(<< >>)
    /\ synth = << >>
    /\ translated_sentences = << >>
    /\ audio_segments = << >>
    /\ delays = << >>
    /\ speech_timing = NONE
    /\ audio_timing = NONE
    /\ cues = << >>
    /\ speech_sentences = << >>

InitExtractor ==
    /\ pc = "start"
    /\ words \in Transcripts(MaxWords, ExtractorTimes)
    /\ sentences = << >>
    /\ Idle

ExtractSentences ==
    /\ pc = "start"
    /\ sentences' = extract_sentences(words)
    /\ pc' = "extracted"
    /\ UNCHANGED callVars
    /\ UNCHANGED speech_sentences
    /\ UNCHANGED <<words, translated_text, target_language, delegation,
                   split_result, synth, translated_sentences, audio_segments,
                   delays, speech_timing, audio_timing, cues>>

NextExtractor == ExtractSentences

SpecExtractor == InitExtractor /\ [][NextExtractor]_vars

(***************************************************************************)
(* SpecMatcher: ai_split_sentences applied to a translated text and the    *)
(* windows of a transcript, for one delegation call.                       *)
(***************************************************************************)
Languages == {"en", "ja"}

\* the characters of a translated text, by target language
Alphabet(language) ==
    IF language = "ja" THEN {"a", " ", IDEO_STOP} ELSE {"a", " ", "."}

RECURSIVE StartOf(_, _)
\* the start of word i of a transcript whose words follow each other without
\* a pause and last durs[1], durs[2], ... seconds
StartOf(durs, i) == IF i = 1 THEN 0 ELSE StartOf(durs, i - 1) + 1000 * durs[i - 1]

\* the transcripts of 1..MaxWindows one-word sentences
MatcherTranscripts ==
    UNION {{[i \in 1..n |-> [word |-> <<"a", ".">>, start_time |-> StartOf(durs, i),
                             end_time |-> StartOf(durs, i) + 1000 * durs[i]]] :
               durs \in [1..n -> 0..MaxWindowSeconds]} :
           n \in 1..MaxWindows}

\* longer texts: one of eight characters, for which the search window of
\* manual_split.py:88 and 138 (len // 4) is two characters wide on each side;
\* one of four sentences for the merge of manual_split.py:64-81; one of five
\* sentences for combine_sentences
LongTexts ==
    {<<"a", "a", " ", "a", " ", "a", "a", "a">>,
     <<"a", IDEO_STOP, "a", IDEO_STOP, "a", IDEO_STOP, "a", IDEO_STOP>>,
     <<"a", ".", "a", ".", "a", ".", "a", ".", "a", ".">>}

\* text cut into m consecutive pieces of (nearly) equal length
EvenCut(text, m) ==
    [k \in 1..m |-> Slice(text, (Len(text) * (k - 1)) \div m, (Len(text) * k) \div m)]

\* the answers of the delegation call that the model tries for a text and n
\* windows: the text cut into 1..MaxParts lines, bare; cut into n lines with
\* the labels the prompt asks for; and an answer that is not the text
AnswersFor(text, n) ==
    {EvenCut(text, m) : m \in 1..MaxParts}
    \cup {[k \in 1..n |-> <<"1", ":", " ">> \o EvenCut(text, n)[k]],
          [k \in 1..n |-> <<"u53E5", "u5B50", "1">> \o EvenCut(text, n)[k]],
          <<text \o <<"a">>>>}

DelegationCalls(text, n) ==
    {NoClient, CallRaises} \cup {Answers(lines) : lines \in AnswersFor(text, n)}

InitMatcher ==
    /\ pc = "start"
    /\ words \in MatcherTranscripts
    /\ sentences = << >>
    /\ target_language \in Languages
    /\ translated_text \in SeqsUpTo(Alphabet(target_language), MaxLen) \cup LongTexts
    /\ delegation = NoClient
    /\ split_result = Returns(<< >>)
    /\ synth = << >>
    /\ translated_sentences = << >>
    /\ audio_segments = << >>
    /\ delays = << >>
    /\ speech_timing = NONE
    /\ audio_timing = NONE
    /\ cues = << >>
    /\ speech_sentences = << >>
    /\ NoCall

\* the call ai_split_sentences(translated_text, original_sentences,
\* target_language, bedrock_client) of subtitle.py:47 and tts.py:138
AiSplit ==
    /\ pc = "extracted"
    /\ \E call \in DelegationCalls(translated_text, Len(sentences)) :
          /\ delegation' = call
          /\ split_result' =
                 ai_split_sentences(translated_text, sentences, target_language, call)
    /\ pc' = "split"
    /\ UNCHANGED callVars
    /\ UNCHANGED speech_sentences
    /\ UNCHANGED <<words, sentences, translated_text, target_language, synth,
                   translated_sentences, audio_segments, delays, speech_timing,
                   audio_timing, cues>>

\* subtitle.py:35-60 and tts.py:126-151, after the call of ai_split_sentences:
\* its result when it returns; when it raises, manual_split_sentences on the
\* same arguments, and when that raises too, split_into_matching_sentences
MatchedSentences(text, original_sentences, language, result) ==
    IF ~result.raised THEN result.value
    ELSE LET again == manual_split_sentences(text, original_sentences, language)
         IN IF ~again.raised THEN again.value
            ELSE split_into_matching_sentences(text, Len(original_sentences))

FallBack ==
    /\ pc = "split"
    /\ translated_sentences' =
           MatchedSentences(translated_text, sentences, target_language, split_result)
    /\ pc' = "matched"
    /\ UNCHANGED callVars
    /\ UNCHANGED speech_sentences
    /\ UNCHANGED <<words, sentences, translated_text, target_language, delegation,
                   split_result, synth, audio_segments, delays, speech_timing,
                   audio_timing, cues>>

NextMatcher == ExtractSentences \/ AiSplit \/ FallBack

SpecMatcher == InitMatcher /\ [][NextMatcher]_vars

(***************************************************************************)
(* Spec: steps 4 and 5 of app.main for one request: generate_speech, the   *)
(* hand-over of audio_timing, create_subtitles.                            *)
(***************************************************************************)
\* times are multiples of 1.2 s: the quotients of lines 121 and 133 are then
\* whole numbers of ms
PipelineTimes == {1200 * k : k \in 0..MaxSecond}

\* the transcripts of the pipeline: every word ends a sentence, so that there
\* is one window per word; any window of a sentence of several words is also
\* the window of one word of these transcripts
PipelineTranscripts ==
    {ws \in Transcripts(MaxWords, PipelineTimes) :
        \A i \in 1..Len(ws) : EndsSentence(ws[i])}

\* the translated text: 1..MaxTokens Japanese clauses of 8 characters, each
\* longer than half a display line, so that a segment of k >= 2 clauses wraps
\* to k lines
Clause == <<"a", "a", "a", "a", "a", "a", "a", IDEO_STOP>>

RECURSIVE Clauses(_)
Clauses(k) == IF k = 0 THEN << >> ELSE Clause \o Clauses(k - 1)

RECURSIVE Compositions(_, _)
\* the ways to write k as a sequence of n positive numbers
Compositions(k, n) ==
    IF n = 0 THEN (IF k = 0 THEN {<< >>} ELSE {})
    ELSE UNION {{<<first>> \o rest : rest \in Compositions(k - first, n - 1)} :
                first \in 1..k}

\* the answers of a delegation call that splits a text of k clauses into n
\* lines at clause boundaries
ClauseAnswers(k, n) ==
    {Answers([i \in 1..n |-> Clauses(c[i])]) : c \in Compositions(k, n)}

\* what Polly and ffprobe can yield: audio of 0, 1.2, ... seconds and one
\* long audio, long enough for the parts of a split segment to last more
\* than 2 s
SynthOutcomes ==
    {EmptySentence, SynthesisError} \cup {Audio(1200 * k) : k \in 0..MaxDuration}
        \cup {Audio(1200 * (2 * MaxDuration + 3))}

\* lines 226-228: a blank segment is skipped before any call is made
OutcomesFor(sentence) ==
    IF Strip(sentence) = << >> THEN {EmptySentence}
    ELSE SynthOutcomes \ {EmptySentence}

\* the delegation calls of the pipeline: an answer that splits the text at
\* clause boundaries into one line per window, or no client (manual split)
PipelineCalls(text, n) ==
    ClauseAnswers(Len(text) \div Len(Clause), n) \cup {NoClient}

Init ==
    /\ pc = "start"
    /\ words \in PipelineTranscripts
    /\ sentences = << >>
    /\ target_language = "ja"
    /\ translated_text \in {Clauses(k) : k \in 0..MaxTokens}
    /\ delegation = NoClient
    /\ split_result = Returns(<< >>)
    /\ synth = << >>
    /\ translated_sentences = << >>
    /\ audio_segments = << >>
    /\ delays = << >>
    /\ speech_timing = NONE
    /\ audio_timing = NONE
    /\ cues = << >>
    /\ speech_sentences = << >>
    /\ NoCall

\* tts.generate_speech, lines 96-107: no word, or no word ending after 0
SpeechRejectsInput ==
    /\ pc = "start"
    /\ MaxEndTime(words) <= 0
    /\ pc' = "speech_raised"
    /\ UNCHANGED callVars
    /\ UNCHANGED speech_sentences
    /\ UNCHANGED <<words, sentences, translated_text, target_language, delegation,
                   split_result, synth, translated_sentences, audio_segments,
                   delays, speech_timing, audio_timing, cues>>

\* tts.generate_speech, lines 109-413.  Its own matcher call (lines 125-151)
\* yields the segments, zipped with the windows at line 224; synth holds what
\* the synthesis of each pair yields.  Without any audio segment line 372
\* reads use_sequential_timing before any assignment: the UnboundLocalError
\* leaves the function (lines 415-417).
GenerateSpeech ==
    /\ pc = "start"
    /\ MaxEndTime(words) > 0
    /\ LET original_sentences == extract_sentences(words)
       IN \E call \in PipelineCalls(translated_text, Len(original_sentences)) :
             LET segments ==
                     MatchedSentences(translated_text, original_sentences,
                         target_language,
                         ai_split_sentences(translated_text, original_sentences,
                                            target_language, call))
                 pairs == Min(Len(segments), Len(original_sentences))
             IN \E outcomes \in [1..pairs -> SynthOutcomes] :
                   LET sorted == SortByStart(
                                     CollectSegments(outcomes, original_sentences, 1))
                       r == Reconcile(sorted)
                   IN /\ \A i \in 1..pairs : outcomes[i] \in OutcomesFor(segments[i])
                      /\ sentences' = original_sentences
                      /\ speech_sentences' = segments
                      /\ synth' = outcomes
                      /\ IF sorted = << >>
                         THEN /\ pc' = "speech_raised"
                              /\ audio_segments' = << >>
                              /\ delays' = << >>
                              /\ speech_timing' = NONE
                         ELSE /\ pc' = "speech_returned"
                              /\ audio_segments' = r.segments
                              /\ delays' = r.delays
                              /\ speech_timing' = r.audio_timing
    /\ UNCHANGED callVars
    /\ UNCHANGED <<words, translated_text, target_language, delegation,
                   split_result, translated_sentences, audio_timing, cues>>

\* app.main, lines 349-352: if audio_timing: translated_text["audio_timing"] = ...
AttachTiming ==
    /\ pc = "speech_returned"
    /\ audio_timing' = IF speech_timing.some /\ speech_timing.value # << >>
                       THEN speech_timing ELSE NONE
    /\ pc' = "attached"
    /\ UNCHANGED callVars
    /\ UNCHANGED speech_sentences
    /\ UNCHANGED <<words, sentences, translated_text, target_language, delegation,
                   split_result, synth, translated_sentences, audio_segments,
                   delays, speech_timing, cues>>

\* subtitle.create_subtitles, lines 26-156: its own matcher call (lines 35-60)
\* and the cues of the segments zipped with the windows
CreateSubtitles ==
    /\ pc = "attached"
    /\ LET original_sentences == extract_sentences(words)
       IN \E call \in PipelineCalls(translated_text, Len(original_sentences)) :
             LET result == ai_split_sentences(translated_text, original_sentences,
                                              target_language, call)
                 segments == MatchedSentences(translated_text, original_sentences,
                                              target_language, result)
             IN /\ delegation' = call
                /\ split_result' = result
                /\ translated_sentences' = segments
                /\ cues' = AllocateCues(segments, original_sentences,
                                        target_language, audio_timing, 1, 1, << >>)
    /\ pc' = "subtitled"
    /\ UNCHANGED callVars
    /\ UNCHANGED speech_sentences
    /\ UNCHANGED <<words, sentences, translated_text, target_language, synth,
                   audio_segments, delays, speech_timing, audio_timing>>

Next == SpeechRejectsInput \/ GenerateSpeech \/ AttachTiming \/ CreateSubtitles

Spec == Init /\ [][Next]_vars

(***************************************************************************)
(* SpecFormatter: format_sentence_for_display applied to a sentence.       *)
(***************************************************************************)
RECURSIVE Letters(_)
Letters(n) == IF n = 0 THEN << >> ELSE <<"a">> \o Letters(n - 1)

\* what a sentence is put together from: words of 4, 16 and 31 letters (longer
\* than the limits 15 and 30), a space and an ideographic full stop
Pieces == {Letters(4), Letters(16), Letters(31), <<" ">>, <<IDEO_STOP>>}

FormatterSentences ==
    {Flatten(ps) : ps \in SeqsUpTo(Pieces, MaxPieces)}

\* the language tags of lines 161-169 ("fr" for the other tags) and the call
\* without a tag
FormatterLanguages == {NONE_LANGUAGE, "en", "ja", "zh", "ko", "fr"}

\* the max_line_length argument: left to its default, or 20
LineLengths == {DefaultMaxLineLength, 20}

InitFormatter ==
    /\ pc = "start"
    /\ words = << >>
    /\ sentences = << >>
    /\ translated_text = << >>
    /\ target_language \in FormatterLanguages
    /\ delegation = NoClient
    /\ split_result = Returns(<< >>)
    /\ synth = << >>
    /\ translated_sentences = << >>
    /\ audio_segments = << >>
    /\ delays = << >>
    /\ speech_timing = NONE
    /\ audio_timing = NONE
    /\ cues = << >>
    /\ speech_sentences = << >>
    /\ arg_sentence \in FormatterSentences
    /\ arg_max_line_length \in LineLengths
    /\ ret_lines = << >>
    /\ arg_seconds = 0
    /\ ret_timecode = << >>

\* the call format_sentence_for_display(sentence, max_line_length,
\* target_language)
FormatSentence ==
    /\ pc = "start"
    /\ ret_lines' =
           format_sentence_for_display(arg_sentence, arg_max_line_length, target_language)
    /\ pc' = "formatted"
    /\ UNCHANGED speech_sentences
    /\ UNCHANGED <<words, sentences, translated_text, target_language, delegation,
                   split_result, synth, translated_sentences, audio_segments,
                   delays, speech_timing, audio_timing, cues, arg_sentence,
                   arg_max_line_length, arg_seconds, ret_timecode>>

NextFormatter == FormatSentence

SpecFormatter == InitFormatter /\ [][NextFormatter]_vars

(***************************************************************************)
(* SpecTimecode: format_time_srt applied to a time.                        *)
(***************************************************************************)
\* the times formatted: the first milliseconds of the timeline and the
\* milliseconds before and after the first minute and the first hour
TimecodeBases == {0, 59000, 3599000}

TimecodeTimes == {base + k : base \in TimecodeBases, k \in 0..MaxMillis}

InitTimecode ==
    /\ pc = "start"
    /\ words = << >>
    /\ sentences = << >>
    /\ translated_text = << >>
    /\ target_language = NONE_LANGUAGE
    /\ delegation = NoClient
    /\ split_result = Returns(<< >>)
    /\ synth = << >>
    /\ translated_sentences = << >>
    /\ audio_segments = << >>
    /\ delays = << >>
    /\ speech_timing = NONE
    /\ audio_timing = NONE
    /\ cues = << >>
    /\ speech_sentences = << >>
    /\ arg_sentence = << >>
    /\ arg_max_line_length = DefaultMaxLineLength
    /\ ret_lines = << >>
    /\ arg_seconds \in TimecodeTimes
    /\ ret_timecode = << >>

\* the call format_time_srt(seconds)
FormatTime ==
    /\ pc = "start"
    /\ ret_timecode' = format_time_srt(arg_seconds)
    /\ pc' = "timecode"
    /\ UNCHANGED speech_sentences
    /\ UNCHANGED <<words, sentences, translated_text, target_language, delegation,
                   split_result, synth, translated_sentences, audio_segments,
                   delays, speech_timing, audio_timing, cues, arg_sentence,
                   arg_max_line_length, ret_lines, arg_seconds>>

NextTimecode == FormatTime

SpecTimecode == InitTimecode /\ [][NextTimecode]_vars

(***************************************************************************)
(* Claims on the Sentence-Count Matcher (checked under SpecMatcher)        *)
(***************************************************************************)
\* C1 (count exactness): for every text and N >= 1 windows, whatever the
\* delegation call does, ai_split_sentences returns a list of exactly N
\* segments.
C1_CountExactness ==
    pc = "split" =>
        /\ ~split_result.raised
        /\ Len(split_result.value) = Len(sentences)

\* C2 (concatenation fidelity): the segments ai_split_sentences returns,
\* concatenated in order and stripped of whitespace, equal the translated
\* text stripped of whitespace.
C2_ConcatenationFidelity ==
    (pc = "split" /\ ~split_result.raised) =>
        SameIgnoringSpace(split_result.value, translated_text)

\* C17 (single window): with exactly one sentence window the matcher returns
\* the one-element list holding the translated text unchanged, whatever the
\* delegation call returns and also when it fails.
C17_SingleWindow ==
    (pc = "split" /\ Len(sentences) = 1) =>
        split_result = Returns(<<translated_text>>)

(***************************************************************************)
(* Claims on the Sentence Boundary Extractor (checked under SpecExtractor) *)
(***************************************************************************)
\* C3 (window monotonicity): for an ordered transcript, after the gap-fill
\* pass every window ends no later than the next window starts.
C3_WindowMonotonicity ==
    pc = "extracted" =>
        \A i \in 1..Len(sentences) - 1 : sentences[i].end <= sentences[i + 1].start

\* a transcript of which the pass has extended a window's end
C3_Witness ==
    /\ pc = "extracted"
    /\ \E i \in 1..Len(sentences) - 1 :
          /\ sentences[i].end > RawSentences(words)[i].end
          /\ sentences[i].end < sentences[i + 1].start

(***************************************************************************)
(* Claims on the Display Formatter (checked under SpecFormatter)           *)
(***************************************************************************)
\* C14 (line length bound): every line format_sentence_for_display returns is
\* at most as long as the limit of the target language: 15 for ja, 30 for zh
\* and ko, 50 for en, 40 for other tags; also for a single token longer than
\* the limit and for zh/ko text without whitespace.
C14_LineLengthBound ==
    (pc = "formatted" /\ target_language # NONE_LANGUAGE) =>
        \A k \in 1..Len(ret_lines) :
            Len(ret_lines[k]) <=
                (CASE target_language = "ja" -> 15
                   [] target_language \in {"zh", "ko"} -> 30
                   [] target_language = "en" -> 50
                   [] OTHER -> 40)

\* C15 (formatter fidelity): the tokens of the lines, concatenated, reproduce
\* the segment: for the whitespace-tokenised languages up to the separating
\* spaces, for ja exactly, no character (a space included) dropped or added.
C15_FormatterFidelity ==
    pc = "formatted" =>
        IF target_language = "ja"
        THEN Flatten(ret_lines) = arg_sentence
        ELSE NoSpace(Flatten(ret_lines)) = NoSpace(arg_sentence)

\* C16 (line-length override): the segment is wrapped against the
\* max_line_length the caller passes, also when a target_language is passed:
\* no longer than it, one line; longer, packed up to it.
C16_ExplicitLineLength ==
    (pc = "formatted" /\ arg_max_line_length # DefaultMaxLineLength) =>
        ret_lines =
            IF Len(arg_sentence) <= arg_max_line_length THEN <<arg_sentence>>
            ELSE PackLines(IF target_language = "ja" THEN split_text_advanced(arg_sentence)
                           ELSE SplitWhitespace(arg_sentence),
                           << >>, << >>, arg_max_line_length)

(***************************************************************************)
(* Claim on the SRT timecode (checked under SpecTimecode)                  *)
(***************************************************************************)
DigitValue(c) == (CHOOSE d \in 1..10 : DigitChars[d] = c) - 1

IsDigit(c) == \E d \in 1..10 : DigitChars[d] = c

\* the number written by the characters lo..hi of a timecode
RECURSIVE Field(_, _, _)
Field(timecode, lo, hi) ==
    IF hi < lo THEN 0
    ELSE 10 * Field(timecode, lo, hi - 1) + DigitValue(timecode[hi])

\* C18 (SRT timecode): for every time t >= 0, format_time_srt(t) is
\* HH:MM:SS,mmm with the fields zero-padded to 2, 2, 2 and 3 digits, MM < 60,
\* SS < 60, mmm < 1000, and HH*3600000 + MM*60000 + SS*1000 + mmm is t in
\* milliseconds: never one millisecond short of a t that is a whole number of
\* milliseconds.
C18_Timecode ==
    pc = "timecode" =>
        /\ Len(ret_timecode) = 12
        /\ ret_timecode[3] = ":" /\ ret_timecode[6] = ":" /\ ret_timecode[9] = ","
        /\ \A p \in {1, 2, 4, 5, 7, 8, 10, 11, 12} : IsDigit(ret_timecode[p])
        /\ Field(ret_timecode, 4, 5) < 60
        /\ Field(ret_timecode, 7, 8) < 60
        /\ Field(ret_timecode, 10, 12) < 1000
        /\ Field(ret_timecode, 1, 2) * 3600000 + Field(ret_timecode, 4, 5) * 60000
               + Field(ret_timecode, 7, 8) * 1000 + Field(ret_timecode, 10, 12)
           = arg_seconds

(***************************************************************************)
(* Claims on the Overlap Reconciler (checked under Spec)                   *)
(***************************************************************************)
\* the decision of line 302 read off the batch generate_speech has sorted
OverlappingPair ==
    \E j \in 1..Len(audio_segments) - 1 :
        audio_segments[j].start + audio_segments[j].duration - 2000
            > audio_segments[j + 1].start

\* C6 (overlap decision): generate_speech returns a Sequential Timeline and
\* delays every audio segment by its sequential_start if and only if some pair
\* of consecutive segments, ordered by original start, satisfies
\* start + duration - 2 > next.start; otherwise the timeline is None and every
\* segment is delayed by its original start.
C6_OverlapDecision ==
    pc = "speech_returned" =>
        /\ \A j \in 1..Len(audio_segments) - 1 :
              audio_segments[j].start <= audio_segments[j + 1].start
        /\ speech_timing.some <=> OverlappingPair
        /\ Len(delays) = Len(audio_segments)
        /\ \A j \in 1..Len(audio_segments) :
              delays[j] = IF OverlappingPair THEN audio_segments[j].sequential_start
                          ELSE audio_segments[j].start

\* a batch whose second segment ends more than 2 s after the third one starts
C6_Witness ==
    /\ pc = "speech_returned"
    /\ speech_timing.some
    /\ Len(audio_segments) >= 3
    /\ audio_segments[1].start + audio_segments[1].duration - 2000
           <= audio_segments[2].start

\* the batch of a second run: every segment starts at the sequential start the
\* first run gave it, with the same duration
SequentialBatch ==
    [j \in 1..Len(audio_segments) |->
        [audio_segments[j] EXCEPT !.start = audio_segments[j].sequential_start,
                                  !.end = audio_segments[j].sequential_end,
                                  !.sequential_start = ABSENT,
                                  !.sequential_end = ABSENT]]

SecondRun == Reconcile(SortByStart(SequentialBatch))

\* C7 (sequential retiming idempotence), as stated: the second run on the
\* sequential batch produces the same timeline as the first run.
C7_SameTimeline ==
    (pc = "speech_returned" /\ speech_timing.some) =>
        /\ SecondRun.audio_timing.some
        /\ Len(SecondRun.audio_timing.value) = Len(speech_timing.value)
        /\ \A j \in 1..Len(speech_timing.value) :
              /\ SecondRun.audio_timing.value[j].index = speech_timing.value[j].index
              /\ SecondRun.audio_timing.value[j].sequential_start
                     = speech_timing.value[j].sequential_start
              /\ SecondRun.audio_timing.value[j].sequential_end
                     = speech_timing.value[j].sequential_end

\* C7 as amended: the second run keeps the order of the segments, detects no
\* overlap, returns no timeline and delays every segment by the delay of the
\* first run.
C7_SamePlacement ==
    (pc = "speech_returned" /\ speech_timing.some) =>
        /\ ~SecondRun.use_sequential_timing
        /\ SecondRun.audio_timing = NONE
        /\ [j \in 1..Len(audio_segments) |-> SecondRun.segments[j].index]
               = [j \in 1..Len(audio_segments) |-> audio_segments[j].index]
        /\ SecondRun.delays = delays

\* a retimed batch of three segments, two of which started at the same time
C7_Witness ==
    /\ pc = "speech_returned"
    /\ speech_timing.some
    /\ Len(audio_segments) >= 3
    /\ \E j \in 1..Len(audio_segments) - 1 :
          audio_segments[j].start = audio_segments[j + 1].start
    /\ SecondRun.delays = delays

\* C8 (all-or-nothing retiming): when an overlap is detected anywhere, every
\* segment of the batch has sequential times and the timeline has one entry per
\* segment; otherwise no segment has them; a batch never mixes the two.
C8_AllOrNothing ==
    pc = "speech_returned" =>
        IF OverlappingPair
        THEN /\ \A j \in 1..Len(audio_segments) :
                   /\ audio_segments[j].sequential_start # ABSENT
                   /\ audio_segments[j].sequential_end # ABSENT
                   /\ delays[j] = audio_segments[j].sequential_start
             /\ speech_timing.some
             /\ Len(speech_timing.value) = Len(audio_segments)
             /\ \A j \in 1..Len(audio_segments) :
                   /\ speech_timing.value[j].index = audio_segments[j].index
                   /\ speech_timing.value[j].sequential_start
                          = audio_segments[j].sequential_start
        ELSE /\ \A j \in 1..Len(audio_segments) :
                   /\ audio_segments[j].sequential_start = ABSENT
                   /\ audio_segments[j].sequential_end = ABSENT
                   /\ delays[j] = audio_segments[j].start
             /\ ~speech_timing.some

\* a batch whose first pair does not overlap and whose second pair does
C8_Witness ==
    /\ pc = "speech_returned"
    /\ Len(audio_segments) >= 3
    /\ audio_segments[1].start + audio_segments[1].duration - 2000
           <= audio_segments[2].start
    /\ audio_segments[2].start + audio_segments[2].duration - 2000
           > audio_segments[3].start
    /\ audio_segments[1].sequential_start # ABSENT

\* C9 (shape of the Sequential Timeline): the first sequential_start is 0,
\* sequential_end = sequential_start + duration for every entry, the next
\* sequential_start is sequential_end + 0.1 s, hence no two entries overlap.
C9_TimelineShape ==
    (pc = "speech_returned" /\ speech_timing.some) =>
        LET t == speech_timing.value
        IN /\ t # << >>
           /\ t[1].sequential_start = 0
           /\ \A j \in 1..Len(t) :
                 /\ t[j].duration > 0
                 /\ t[j].sequential_end = t[j].sequential_start + t[j].duration
           /\ \A j \in 1..Len(t) - 1 :
                 /\ t[j + 1].sequential_start = t[j].sequential_end + 100
                 /\ t[j].sequential_end < t[j + 1].sequential_start

\* a timeline of three entries of different durations
C9_Witness ==
    /\ pc = "speech_returned"
    /\ speech_timing.some
    /\ Len(speech_timing.value) >= 3
    /\ speech_timing.value[1].duration # speech_timing.value[2].duration
    /\ speech_timing.value[3].sequential_start
           = speech_timing.value[1].duration + speech_timing.value[2].duration + 200

\* C20 (a skipped segment does not crash the batch): a segment that is empty,
\* whose audio lasts <= 0 or whose synthesis raises is skipped, every other
\* segment is synthesized and placed, and generate_speech returns.
C20_SkipsDoNotCrash ==
    (pc \in {"speech_returned", "speech_raised"} /\ synth # << >>) =>
        /\ pc = "speech_returned"
        /\ {audio_segments[j].index : j \in 1..Len(audio_segments)}
               = {i - 1 : i \in {k \in 1..Len(synth) :
                                    synth[k].kind = "audio" /\ synth[k].duration > 0}}
        /\ Len(delays) = Len(audio_segments)

(***************************************************************************)
(* Claims on the Subtitle Cue Allocator (checked under Spec)               *)
(***************************************************************************)
\* C4 (cue start ordering): in every output of create_subtitles
\* cue[i].start <= cue[i+1].start, with the original windows and with a
\* Sequential Timeline, also one with fewer entries than there are segments.
C4_CueStartOrdering ==
    pc = "subtitled" =>
        \A k \in 1..Len(cues) - 1 : cues[k].start <= cues[k + 1].start

\* C5 (cue indices): the cues are numbered 1, 2, 3, ... in output order over
\* the whole output; the counter is not reset or skipped at a segment boundary.
C5_CueIndices ==
    pc = "subtitled" =>
        /\ \A k \in 1..Len(cues) : cues[k].index = k
        /\ \A k \in 1..Len(cues) - 1 : cues[k + 1].index = cues[k].index + 1

\* an output in which a segment of several cues is followed by another segment
C5_Witness ==
    /\ pc = "subtitled"
    /\ \E k \in 1..Len(cues) - 2 :
          /\ cues[k].segment = cues[k + 1].segment
          /\ cues[k + 1].segment # cues[k + 2].segment
          /\ cues[k + 2].index = k + 2

\* the cues written for segment i (0-based), in output order
CuesOf(i) == SelectSeq(cues, LAMBDA c : c.segment = i)

\* the display lines of segment i and the window create_subtitles selects for it
LinesOf(i) ==
    format_sentence_for_display(translated_sentences[i + 1], DefaultMaxLineLength,
                                target_language)

WindowOf(i) == SelectedWindow(i, sentences[i + 1], audio_timing)

C12_SplitCues ==
    pc = "subtitled" =>
        \A i \in 0..Len(translated_sentences) - 1 :
            LET L == Len(LinesOf(i))
                n == Len(CuesOf(i))
            IN L > 2 =>
                /\ 2 * n >= L
                /\ 2 * (n - 1) < L
                /\ \A k \in 1..n :
                      /\ Len(CuesOf(i)[k].lines) \in {1, 2}
                      /\ CuesOf(i)[k].lines[1] = LinesOf(i)[2 * k - 1]
                      /\ Len(CuesOf(i)[k].lines) = 2
                             => CuesOf(i)[k].lines[2] = LinesOf(i)[2 * k]
                      /\ Len(CuesOf(i)[k].lines) = 1 => (k = n /\ 2 * k - 1 = L)
                      /\ CuesOf(i)[k].index = CuesOf(i)[1].index + k - 1
                /\ Flatten([k \in 1..n |-> CuesOf(i)[k].lines]) = LinesOf(i)

\* a segment of three or five lines whose last cue carries the odd line
C12_Witness ==
    /\ pc = "subtitled"
    /\ \E i \in 0..Len(translated_sentences) - 1 :
          /\ Len(LinesOf(i)) \in {3, 5}
          /\ Len(CuesOf(i)) = (Len(LinesOf(i)) + 1) \div 2
          /\ Len(CuesOf(i)[Len(CuesOf(i))].lines) = 1

WindowByIndex(i) ==
    IF audio_timing.some /\ \E j \in 1..Len(audio_timing.value) :
                                audio_timing.value[j].index = i
    THEN LET j == CHOOSE j \in 1..Len(audio_timing.value) :
                      audio_timing.value[j].index = i
         IN [start |-> audio_timing.value[j].sequential_start,
             end |-> audio_timing.value[j].sequential_end]
    ELSE [start |-> sentences[i + 1].start, end |-> sentences[i + 1].end]

\* C10 (timeline selection by segment index): the cues of segment i lie in the
\* sequential window of the timeline entry whose index is i when there is one
\* and in the original window otherwise, also when synthesis skipped segments.
C10_SelectionByIndex ==
    pc = "subtitled" =>
        \A k \in 1..Len(cues) :
            LET w == WindowByIndex(cues[k].segment)
            IN /\ w.start <= cues[k].start
               /\ cues[k].end <= w.end
               /\ (k = 1 \/ cues[k - 1].segment # cues[k].segment)
                      => cues[k].start = w.start
\* the Sentence Window invariant of a list of windows
WindowInvariant(sents) ==
    \A i \in 1..Len(sents) :
        /\ sents[i].words # << >>
        /\ sents[i].start = sents[i].words[1].start_time
        /\ sents[i].end >= sents[i].words[Len(sents[i].words)].end_time

\* C19 (Sentence Window invariant): every window extract_sentences returns is
\* non-empty, starts at the start_time of its first word and ends no earlier
\* than the end_time of its last word, for windows closed by a terminating
\* word and for the trailing window, before and after the gap-fill pass.
C19_WindowInvariant ==
    pc = "extracted" =>
        /\ WindowInvariant(RawSentences(words))
        /\ WindowInvariant(sentences)
        /\ Len(sentences) = Len(RawSentences(words))
        /\ \A i \in 1..Len(sentences) :
              sentences[i].words = RawSentences(words)[i].words

\* a window of two words whose end the pass has moved, followed by a trailing
\* window that no terminating word closes
C19_Witness ==
    /\ pc = "extracted"
    /\ Len(sentences) = 2
    /\ Len(sentences[1].words) = 2
    /\ sentences[1].end > sentences[1].words[2].end_time
    /\ ~EndsSentence(sentences[2].words[Len(sentences[2].words)])

(***************************************************************************)
(* Claims on the fall-back chain of the callers (checked under SpecMatcher) *)
(***************************************************************************)
\* C21 (terminal fall-back): whichever tier of the chain ai_split_sentences,
\* manual_split_sentences, split_into_matching_sentences finally produces the
\* segments, the list paired with the N >= 1 windows has exactly N entries.
C21_TerminalCount ==
    pc = "matched" => Len(translated_sentences) = Len(sentences)

(***************************************************************************)
(* Further claims on the Sentence Boundary Extractor (SpecExtractor)       *)
(***************************************************************************)
\* the text of a word ends with one of . ! ? and their full-width forms
Terminated(word) ==
    word.word # << >> /\ word.word[Len(word.word)] \in {".", "!", "?", "u3002", "uFF01", "uFF1F"}

\* the words of all windows, in the order of the windows
WordsOf(sents) == Flatten([i \in 1..Len(sents) |-> sents[i].words])

\* C22 (extractor partition): extract_sentences splits the words into
\* consecutive windows in input order, every word in exactly one window; a
\* window ends exactly at each word whose text ends with . ! ? or a full-width
\* form of them, a trailing run without such a word is flushed as the final
\* window, and no word gives no window.
C22_Partition ==
    pc = "extracted" =>
        /\ WordsOf(sentences) = words
        /\ \A i \in 1..Len(sentences) :
              /\ sentences[i].words # << >>
              /\ \A k \in 1..Len(sentences[i].words) - 1 :
                    ~Terminated(sentences[i].words[k])
              /\ i < Len(sentences)
                    => Terminated(sentences[i].words[Len(sentences[i].words)])
        /\ words = << >> => sentences = << >>

\* three words, the second closing a window and the third flushed as the
\* final window without a terminating word
C22_Witness ==
    /\ pc = "extracted"
    /\ Len(words) = 3
    /\ ~Terminated(words[1]) /\ Terminated(words[2]) /\ ~Terminated(words[3])
    /\ Len(sentences) = 2
    /\ sentences[2].words = <<words[3]>>

\* the gap between window i and window i + 1 before the pass of lines 43-50
RawGap(i) == RawSentences(words)[i + 1].start - RawSentences(words)[i].end

\* C23 (gap-fill rule): the end of window i grows by exactly 80% of the gap to
\* window i + 1 if and only if the gap exceeds 0.2 s and is otherwise left as
\* it was; the pass changes no start, no words and not the last window's end.
C23_GapFillRule ==
    pc = "extracted" =>
        /\ Len(sentences) = Len(RawSentences(words))
        /\ \A i \in 1..Len(sentences) :
              /\ sentences[i].start = RawSentences(words)[i].start
              /\ sentences[i].words = RawSentences(words)[i].words
              /\ (i < Len(sentences) /\ RawGap(i) > 200)
                    => 5 * (sentences[i].end - RawSentences(words)[i].end) = 4 * RawGap(i)
              /\ (i = Len(sentences) \/ RawGap(i) <= 200)
                    => sentences[i].end = RawSentences(words)[i].end

\* three windows: a gap of more than 0.2 s that the pass has filled and a gap
\* of at most 0.2 s that it has left
C23_Witness ==
    /\ pc = "extracted"
    /\ Len(sentences) = 3
    /\ RawGap(1) > 200 /\ sentences[1].end > RawSentences(words)[1].end
    /\ RawGap(2) > 0 /\ RawGap(2) <= 200
    /\ sentences[2].end = RawSentences(words)[2].end

AnswerLines == ParseAnswer(delegation.lines)

AnswerIsFaithful ==
    SelectSeq(Flatten(AnswerLines), LAMBDA c : c # " ")
        = SelectSeq(translated_text, LAMBDA c : c # " ")

\* C25 (delegation fall-through): when the client cannot be created, the call
\* raises, the parsed lines fail the whitespace-insensitive fidelity check or
\* are fewer than N, ai_split_sentences returns exactly what
\* manual_split_sentences returns on the same inputs; faithful lines that are
\* exactly N are returned as they are; nothing is raised but what
\* manual_split_sentences raises.
C25_FallThrough ==
    pc = "split" =>
        /\ (\/ delegation.kind \in {"no_client", "raises"}
            \/ ~AnswerIsFaithful
            \/ Len(AnswerLines) < Len(sentences))
              => split_result
                     = manual_split_sentences(translated_text, sentences, target_language)
        /\ (/\ delegation.kind = "answers"
            /\ AnswerIsFaithful
            /\ Len(AnswerLines) = Len(sentences))
              => split_result = Returns(AnswerLines)
        /\ split_result.raised
              => manual_split_sentences(translated_text, sentences, target_language).raised

\* an answer of two lines that is not the text, for two windows: the manual
\* split of the text is returned, not the answer
C25_Witness ==
    /\ pc = "split"
    /\ delegation.kind = "answers"
    /\ Len(sentences) = 2
    /\ Len(translated_text) > 2
    /\ Len(AnswerLines) = 2
    /\ ~AnswerIsFaithful
    /\ ~split_result.raised
    /\ split_result.value # AnswerLines


\* parts with the adjacent pair at i replaced by its two texts joined, in
\* their order, with one space
PairJoined(parts, i) ==
    [k \in 1..Len(parts) - 1 |->
        IF k < i THEN parts[k]
        ELSE IF k = i THEN parts[i] \o <<" ">> \o parts[i + 1]
        ELSE parts[k + 1]]

PairLength(parts, i) == Len(parts[i]) + Len(parts[i + 1])

\* TRUE when the pair at i has the smallest combined length and every pair
\* to its left is longer
IsLeftmostShortest(parts, i) ==
    /\ \A j \in 1..Len(parts) - 1 : PairLength(parts, i) <= PairLength(parts, j)
    /\ \A j \in 1..i - 1 : PairLength(parts, j) > PairLength(parts, i)

RECURSIVE GreedyMerged(_, _, _)
\* TRUE when `result` is reached from `parts` by `steps` merges, each of the
\* leftmost shortest adjacent pair
GreedyMerged(parts, steps, result) ==
    IF steps = 0 THEN result = parts
    ELSE \E i \in 1..Len(parts) - 1 :
            /\ IsLeftmostShortest(parts, i)
            /\ GreedyMerged(PairJoined(parts, i), steps - 1, result)

\* C26 (greedy shortest-pair merge): M > N faithful lines are reduced to
\* exactly N parts by M - N merges, each of the adjacent pair with the
\* smallest combined length, the leftmost on ties, joined in their order; the
\* characters of the lines other than the joining spaces come out in the
\* same order, none dropped.
C26_GreedyMerge ==
    (/\ pc = "split"
     /\ delegation.kind = "answers"
     /\ AnswerIsFaithful
     /\ Len(AnswerLines) > Len(sentences))
        => /\ ~split_result.raised
           /\ Len(split_result.value) = Len(sentences)
           /\ GreedyMerged(AnswerLines, Len(AnswerLines) - Len(sentences),
                           split_result.value)
           /\ SelectSeq(Flatten(split_result.value), LAMBDA c : c # " ")
                  = SelectSeq(Flatten(AnswerLines), LAMBDA c : c # " ")

\* two merges, the first of them not of the first pair
C26_Witness ==
    /\ pc = "split"
    /\ delegation.kind = "answers"
    /\ AnswerIsFaithful
    /\ Len(AnswerLines) = Len(sentences) + 2
    /\ ~IsLeftmostShortest(AnswerLines, 1)
    /\ ~split_result.raised
    /\ Len(split_result.value) = Len(sentences)


\* the two-window proportional split is reached: two windows lasting more
\* than 0 together, no delegation, and a punctuation attempt that falls through
Duration(sentence) == sentence.end - sentence.start

ProportionalCase ==
    /\ pc = "split"
    /\ delegation.kind = "no_client"
    /\ Len(sentences) = 2
    /\ Duration(sentences[1]) + Duration(sentences[2]) > 0
    /\ IF target_language = "ja"
       THEN CjkPunctuationSplit(translated_text, Duration(sentences[1]),
                Duration(sentences[1]) + Duration(sentences[2])) = FALLS
       ELSE LatinPunctuationSplit(translated_text, LatinMarks, Duration(sentences[1]),
                Duration(sentences[1]) + Duration(sentences[2])) = FALLS

TargetOffset ==
    (Len(translated_text) * Duration(sentences[1]))
        \div (Duration(sentences[1]) + Duration(sentences[2]))

Distance(i, j) == IF i >= j THEN i - j ELSE j - i

\* the 0-based positions of the break characters within w of the target offset
BreaksInWindow ==
    {i \in 0..Len(translated_text) - 1 :
        /\ Distance(i, TargetOffset) <= Min(20, Len(translated_text) \div 4)
        /\ translated_text[i + 1]
               \in (IF target_language = "ja" THEN CjkBreaks ELSE {" "})}

NearestBreaks ==
    {i \in BreaksInWindow :
        \A j \in BreaksInWindow : Distance(i, TargetOffset) <= Distance(j, TargetOffset)}

\* C27 (proportional split for N == 2): the text is cut at a break character
\* nearest to the target offset among those within w of it on either side
\* (before or after that character), and at the target offset when there is
\* none.
C27_NearestBreak ==
    ProportionalCase =>
        /\ ~split_result.raised
        /\ IF BreaksInWindow = {}
           THEN split_result.value = CutAt(translated_text, TargetOffset)
           ELSE \E i \in NearestBreaks :
                   \/ split_result.value = CutAt(translated_text, i)
                   \/ split_result.value = CutAt(translated_text, i + 1)


\* Python's round(a / b) for a >= 0 < b: to the nearest integer, a half to
\* the even one
Round(a, b) ==
    LET q == a \div b
        r == a % b
    IN IF 2 * r < b THEN q
       ELSE IF 2 * r > b THEN q + 1
       ELSE IF q % 2 = 0 THEN q ELSE q + 1

\* pieces merged into n groups of adjacent pieces with the boundaries at
\* round(i * P / n), the pieces of a group joined with sep
GroupedAtRounded(pieces, n, sep) ==
    [k \in 1..n |->
        Join(Slice(pieces, Round((k - 1) * Len(pieces), n), Round(k * Len(pieces), n)),
             sep)]

\* the pieces of the punctuation split of the two-window case: at the
\* ideographic full stop for ja, at ". " otherwise
PunctuationPieces ==
    IF target_language = "ja"
    THEN LET kept == NonBlank(SplitOn(translated_text, <<IDEO_STOP>>))
         IN [i \in 1..Len(kept) |-> Append(Strip(kept[i]), IDEO_STOP)]
    ELSE RebuildParts(SplitOn(translated_text, <<".", " ">>), << >>, << >>, <<".">>)

\* the two-window punctuation split has more than two pieces and merges them
MergeCase ==
    /\ pc = "split"
    /\ delegation.kind = "no_client"
    /\ Len(sentences) = 2
    /\ Duration(sentences[1]) + Duration(sentences[2]) > 0
    /\ Contains(translated_text,
                IF target_language = "ja" THEN <<IDEO_STOP>> ELSE <<".", " ">>)
    /\ Len(PunctuationPieces) > 2
    /\ ~ProportionalCase

\* the last tier has more sentences than windows and combines them
CombineCase ==
    /\ pc = "matched"
    /\ split_result.raised
    /\ Len(PiecesAfter(translated_text, SentenceMarks)) > Len(sentences)

\* C28 (punctuation over-segmentation merge): P > N pieces are merged into N
\* groups of adjacent pieces with the boundaries at round(i * P / N), whatever
\* the windows last, in the two-window merge of manual_split_sentences and in
\* combine_sentences.
C28_RoundedBoundaries ==
    /\ MergeCase =>
          /\ ~split_result.raised
          /\ split_result.value
                 = GroupedAtRounded(PunctuationPieces, 2,
                       IF target_language = "ja" THEN << >> ELSE <<" ">>)
    /\ CombineCase =>
          translated_sentences
              = GroupedAtRounded(PiecesAfter(translated_text, SentenceMarks),
                                 Len(sentences), <<" ">>)


(***************************************************************************)
(* Further claims on the pipeline (checked under Spec)                     *)
(***************************************************************************)
\* C29 (no synthesized segment at all): when every segment of the batch is
\* skipped (empty text, audio of duration <= 0 or a synthesis that raises)
\* and the original duration is positive, generate_speech returns, with an
\* absent timeline.
C29_NothingSynthesized ==
    (/\ pc \in {"speech_returned", "speech_raised"}
     /\ MaxEndTime(words) > 0
     /\ \A k \in 1..Len(synth) : ~(synth[k].kind = "audio" /\ synth[k].duration > 0))
        => /\ pc = "speech_returned"
           /\ speech_timing = NONE


\* C30 (audio and subtitles share one segmentation): the segments that
\* create_subtitles pairs with the windows are the segments generate_speech
\* synthesized from the same translated text and words.
C30_SameSegmentation ==
    pc = "subtitled" => translated_sentences = speech_sentences

=============================================================================
